---- MODULE Spec2Model ----
(***************************************************************************)
(* Pairwise similarity comparison engine of ts-function-similarity:        *)
(* the edit-distance core, the similarity scorer, the pruning filters,     *)
(* the sequential driver (compareAll, compareOne, findDuplicates) and the  *)
(* worker-thread decomposition (compareAllParallel, worker.ts); the        *)
(* earlier full-matrix distance and unoptimized compareAll; and the        *)
(* FunctionExtractor's extractFromDirectory.                               *)
(*                                                                         *)
(* Numbers.  Scores and thresholds are JavaScript doubles with at most two *)
(* decimals; the model holds them in hundredths (66.67 is 6667) and        *)
(* computes in integers.  On the text lengths and thresholds of this model *)
(* the doubles of the code give the same values, except in                 *)
(* DistanceCeiling, which follows the double (see ProductBelowInteger).    *)
(*                                                                         *)
(* Texts are sequences of one-character strings.                           *)
(***************************************************************************)
EXTENDS Integers, Sequences, FiniteSets, TLC

VARIABLES
    str1, str2,      \* the two texts handed to a text function
    call,            \* the text function applied, its argument and its value
    functions,       \* the caller's fragment array
    options,         \* the caller's ComparisonOptions
    op,              \* the engine operation called, with its own arguments
    pc,              \* position of the engine call in progress
    ret,             \* the list the finished call returned
    par,             \* compareAllParallel's locals while it awaits its workers;
                     \* par.arrival (not in the code) lists the workers in
                     \* the order their messages arrived
    extractor        \* a FunctionExtractor instance, its arrays and the
                     \* extractFromDirectory calls in progress on it

vars == <<str1, str2, call, functions, options, op, pc, ret, par, extractor>>

textVars == <<str1, str2, call>>
engineVars == <<functions, options, op, pc, ret, par, extractor>>

(***************************************************************************)
(* Bounds of the model.                                                    *)
(***************************************************************************)
\* longest text handed to a text function
MaxTextLen == 3
\* largest distance ceiling handed to levenshteinDistanceWithThreshold
MaxCeiling == 3

Alphabet == {"a", "b"}

RECURSIVE TextsOfLen(_)
TextsOfLen(n) ==
    IF n = 0 THEN {<< >>}
    ELSE {Append(t, ch) : t \in TextsOfLen(n - 1), ch \in Alphabet}

Texts == UNION {TextsOfLen(n) : n \in 0..MaxTextLen}

\* minSimilarity values, in hundredths: 33.33, 33.34, 50, 66.66, 66.67, ...
MinSimilarities == {0, 2500, 3333, 3334, 5000, 6666, 6667, 7500, 9000, 10000}

\* an optional argument: << >> is undefined, <<v>> is the value v
Undefined == << >>
Some(v) == <<v>>
IsDefined(o) == Len(o) = 1
ValueOf(o) == o[1]

(***************************************************************************)
(* Math.min, Math.max, Math.abs                                            *)
(***************************************************************************)
Min2(x, y) == IF x <= y THEN x ELSE y
Max2(x, y) == IF x >= y THEN x ELSE y
Min3(x, y, z) == Min2(x, Min2(y, z))
Abs(x) == IF x < 0 THEN 0 - x ELSE x

(***************************************************************************)
(* The edit distance itself (Wagner-Fischer recurrence on prefixes): the   *)
(* yardstick the code's distances are measured against.                    *)
(***************************************************************************)
RECURSIVE EditDistance(_, _)
EditDistance(a, b) ==
    IF Len(a) = 0 THEN Len(b)
    ELSE IF Len(b) = 0 THEN Len(a)
    ELSE LET a1 == SubSeq(a, 1, Len(a) - 1)
             b1 == SubSeq(b, 1, Len(b) - 1)
         IN  Min3(EditDistance(a1, b) + 1,
                  EditDistance(a, b1) + 1,
                  EditDistance(a1, b1)
                      + (IF a[Len(a)] = b[Len(b)] THEN 0 ELSE 1))

(***************************************************************************)
(* levenshteinDistance (rolling rows).  A row is a sequence; the code's    *)
(* row[j] is position j + 1.                                               *)
(***************************************************************************)
\* prevRow[j] = j for j in 0..len2
FirstRow(len2) == [k \in 1..(len2 + 1) |-> k - 1]

\* an inner loop that charges a substitution for equal characters too (not
\* the code)
RECURSIVE FillRowNoMatch(_, _, _, _, _)
FillRowNoMatch(prevRow, curr, ch, s2, j) ==
    IF j > Len(s2) THEN curr
    ELSE LET cell == Min3(prevRow[j + 1] + 1, curr[j] + 1, prevRow[j] + 1)
         IN  FillRowNoMatch(prevRow, Append(curr, cell), ch, s2, j + 1)

\* the inner loop over j of one row i: curr holds currRow[0..j-1]
RECURSIVE FillRow(_, _, _, _, _)
FillRow(prevRow, curr, ch, s2, j) ==
    IF j > Len(s2) THEN curr
    ELSE LET cost == IF ch = s2[j] THEN 0 ELSE 1
             cell == Min3(prevRow[j + 1] + 1, curr[j] + 1, prevRow[j] + cost)
         IN  FillRow(prevRow, Append(curr, cell), ch, s2, j + 1)

\* the outer loop over i; returns prevRow[len2] after the last swap
RECURSIVE LevRows(_, _, _, _)
LevRows(prevRow, s1, s2, i) ==
    IF i > Len(s1) THEN prevRow[Len(s2) + 1]
    ELSE LevRows(FillRow(prevRow, <<i>>, s1[i], s2, 1), s1, s2, i + 1)

levenshteinDistance(a, b) ==
    IF Len(a) = 0 THEN Len(b)
    ELSE IF Len(b) = 0 THEN Len(a)
    ELSE IF a = b THEN 0
    ELSE LET s1 == IF Len(a) > Len(b) THEN b ELSE a
             s2 == IF Len(a) > Len(b) THEN a ELSE b
         IN  LevRows(FirstRow(Len(s2)), s1, s2, 1)

(***************************************************************************)
(* levenshteinDistance of the earlier implementation (src/levenshtein.ts): *)
(* the full table dp, a sequence of rows; dp[i][j] is row i + 1, position  *)
(* j + 1.  No early exit, no swap.                                         *)
(***************************************************************************)
\* row i of dp from row i - 1: dp[i][0] = i, then the loop over j
RECURSIVE MatrixRow(_, _, _, _, _)
MatrixRow(above, row, ch, s2, j) ==
    IF j > Len(s2) THEN row
    ELSE LET cell == IF ch = s2[j]
                     THEN above[j]
                     ELSE Min3(above[j + 1] + 1, row[j] + 1, above[j] + 1)
         IN  MatrixRow(above, Append(row, cell), ch, s2, j + 1)

RECURSIVE MatrixFill(_, _, _, _)
MatrixFill(dp, s1, s2, i) ==
    IF i > Len(s1) THEN dp
    ELSE MatrixFill(Append(dp, MatrixRow(dp[i], <<i>>, s1[i], s2, 1)),
                    s1, s2, i + 1)

levenshteinDistanceFullMatrix(a, b) ==
    LET dp == MatrixFill(<<FirstRow(Len(b))>>, a, b, 1)
    IN  dp[Len(a) + 1][Len(b) + 1]

(***************************************************************************)
(* levenshteinDistanceWithThreshold                                        *)
(***************************************************************************)
RECURSIVE MinOfRow(_, _, _)
\* minInRow: starts at i (= currRow[0]) and is lowered by every cell
MinOfRow(row, k, m) ==
    IF k > Len(row) THEN m
    ELSE MinOfRow(row, k + 1, IF row[k] < m THEN row[k] ELSE m)

\* a per-row abort that also fires for a row minimum equal to the ceiling
\* (not the code)
RECURSIVE LevRowsAbortAtCeiling(_, _, _, _, _)
LevRowsAbortAtCeiling(prevRow, s1, s2, i, maxDistance) ==
    IF i > Len(s1) THEN prevRow[Len(s2) + 1]
    ELSE LET currRow == FillRow(prevRow, <<i>>, s1[i], s2, 1)
             minInRow == MinOfRow(currRow, 2, i)
         IN  IF IsDefined(maxDistance) /\ minInRow >= ValueOf(maxDistance)
             THEN ValueOf(maxDistance) + 1
             ELSE LevRowsAbortAtCeiling(currRow, s1, s2, i + 1, maxDistance)

RECURSIVE LevRowsWithThreshold(_, _, _, _, _)
LevRowsWithThreshold(prevRow, s1, s2, i, maxDistance) ==
    IF i > Len(s1) THEN prevRow[Len(s2) + 1]
    ELSE LET currRow == FillRow(prevRow, <<i>>, s1[i], s2, 1)
             minInRow == MinOfRow(currRow, 2, i)
         IN  IF IsDefined(maxDistance) /\ minInRow > ValueOf(maxDistance)
             THEN ValueOf(maxDistance) + 1
             ELSE LevRowsWithThreshold(currRow, s1, s2, i + 1, maxDistance)

\* the length-difference abort tested before the early exits (not the code)
levenshteinDistanceAbortFirst(a, b, maxDistance) ==
    IF IsDefined(maxDistance) /\ Abs(Len(b) - Len(a)) > ValueOf(maxDistance)
    THEN ValueOf(maxDistance) + 1
    ELSE IF Len(a) = 0 THEN Len(b)
    ELSE IF Len(b) = 0 THEN Len(a)
    ELSE IF a = b THEN 0
    ELSE LET s1 == IF Len(a) > Len(b) THEN b ELSE a
             s2 == IF Len(a) > Len(b) THEN a ELSE b
         IN  LevRowsWithThreshold(FirstRow(Len(s2)), s1, s2, 1, maxDistance)

levenshteinDistanceWithThreshold(a, b, maxDistance) ==
    IF Len(a) = 0 THEN Len(b)
    ELSE IF Len(b) = 0 THEN Len(a)
    ELSE IF a = b THEN 0
    ELSE IF IsDefined(maxDistance) /\ Abs(Len(b) - Len(a)) > ValueOf(maxDistance)
    THEN ValueOf(maxDistance) + 1
    ELSE LET s1 == IF Len(a) > Len(b) THEN b ELSE a
             s2 == IF Len(a) > Len(b) THEN a ELSE b
         IN  LevRowsWithThreshold(FirstRow(Len(s2)), s1, s2, 1, maxDistance)

(***************************************************************************)
(* The length of prevRow and of currRow as the two functions allocate      *)
(* them (new Array(len2 + 1) after the swap); 0 when an early exit returns *)
(* before the allocation.                                                  *)
(***************************************************************************)
levenshteinRowLength(a, b) ==
    IF Len(a) = 0 \/ Len(b) = 0 \/ a = b THEN 0
    ELSE LET s2 == IF Len(a) > Len(b) THEN a ELSE b
         IN  Len(FirstRow(Len(s2)))

thresholdRowLength(a, b, maxDistance) ==
    IF Len(a) = 0 \/ Len(b) = 0 \/ a = b THEN 0
    ELSE IF IsDefined(maxDistance) /\ Abs(Len(b) - Len(a)) > ValueOf(maxDistance)
    THEN 0
    ELSE LET s2 == IF Len(a) > Len(b) THEN a ELSE b
         IN  Len(FirstRow(Len(s2)))

(***************************************************************************)
(* The scorers.  Values are in hundredths of a percent point.              *)
(***************************************************************************)
\* Math.round(x * 10000) / 100 for x = (maxLength - distance) / maxLength:
\* Math.round rounds half up, floor(x + 1/2)
RoundedScore(maxLength, distance) ==
    (2 * (maxLength - distance) * 10000 + maxLength) \div (2 * maxLength)

\* The pairs (maxLength, minSimilarity), maxLength up to 12, for which the
\* double maxLength * (1 - minSimilarity / 100) is just below the integer
\* the exact product is: 1 - 80 / 100 is 0.19999999999999996, and 5 times
\* that is 0.9999999999999998.  For every other pair of that range, and
\* every minSimilarity with two decimals, the double's floor is the exact
\* one.
ProductBelowInteger == {<<5, 8000>>, <<10, 8000>>, <<10, 9000>>}

\* Math.floor(maxLength * (1 - minSimilarity / 100)), in doubles
DistanceCeiling(maxLength, minSimilarity) ==
    LET exact == (maxLength * (10000 - minSimilarity)) \div 10000
    IN  IF <<maxLength, minSimilarity>> \in ProductBelowInteger
        THEN exact - 1
        ELSE exact

\* the one-empty exit tested first, so that two empty texts score 0 (not
\* the code)
calculateSimilarityEmptyFirst(a, b, minSimilarity) ==
    IF Len(a) = 0 \/ Len(b) = 0 THEN 0
    ELSE IF a = b THEN 10000
    ELSE LET maxLength == Max2(Len(a), Len(b))
             maxDistance ==
                 IF IsDefined(minSimilarity)
                 THEN Some(DistanceCeiling(maxLength, ValueOf(minSimilarity)))
                 ELSE Undefined
             distance == levenshteinDistanceWithThreshold(a, b, maxDistance)
         IN  IF IsDefined(maxDistance) /\ distance > ValueOf(maxDistance)
             THEN 0
             ELSE RoundedScore(maxLength, distance)

calculateSimilarityWithThreshold(a, b, minSimilarity) ==
    IF a = b THEN 10000
    ELSE IF Len(a) = 0 /\ Len(b) = 0 THEN 10000
    ELSE IF Len(a) = 0 \/ Len(b) = 0 THEN 0
    ELSE LET maxLength == Max2(Len(a), Len(b))
             maxDistance ==
                 IF IsDefined(minSimilarity)
                 THEN Some(DistanceCeiling(maxLength, ValueOf(minSimilarity)))
                 ELSE Undefined
             distance == levenshteinDistanceWithThreshold(a, b, maxDistance)
         IN  IF IsDefined(maxDistance) /\ distance > ValueOf(maxDistance)
             THEN 0
             ELSE RoundedScore(maxLength, distance)

\* a scorer that divides by the shorter length
calculateSimilarityByMinLength(a, b) ==
    IF a = b THEN 10000
    ELSE IF Len(a) = 0 /\ Len(b) = 0 THEN 10000
    ELSE IF Len(a) = 0 \/ Len(b) = 0 THEN 0
    ELSE RoundedScore(Min2(Len(a), Len(b)), levenshteinDistance(a, b))

calculateSimilarity(a, b) ==
    IF a = b THEN 10000
    ELSE IF Len(a) = 0 /\ Len(b) = 0 THEN 10000
    ELSE IF Len(a) = 0 \/ Len(b) = 0 THEN 0
    ELSE RoundedScore(Max2(Len(a), Len(b)), levenshteinDistance(a, b))

(***************************************************************************)
(* failsFrequencyCheck                                                     *)
(***************************************************************************)
\* freq.get(ch) || 0
CountOf(s, ch) == Cardinality({k \in 1..Len(s) : s[k] = ch})

CharsOf(s) == {s[k] : k \in 1..Len(s)}

RECURSIVE SumAbsDiff(_, _, _)
SumAbsDiff(chars, a, b) ==
    IF chars = {} THEN 0
    ELSE LET ch == CHOOSE c \in chars : TRUE
         IN  Abs(CountOf(a, ch) - CountOf(b, ch)) + SumAbsDiff(chars \ {ch}, a, b)

\* minEdits > maxDistance, without the halving (not the code)
failsFrequencyCheckUnhalved(a, b, maxDistance) ==
    SumAbsDiff(CharsOf(a) \cup CharsOf(b), a, b) > maxDistance

\* minEdits / 2 >= maxDistance (not the code)
failsFrequencyCheckInclusive(a, b, maxDistance) ==
    SumAbsDiff(CharsOf(a) \cup CharsOf(b), a, b) >= 2 * maxDistance

\* minEdits / 2 > maxDistance
failsFrequencyCheck(a, b, maxDistance) ==
    SumAbsDiff(CharsOf(a) \cup CharsOf(b), a, b) > 2 * maxDistance

(***************************************************************************)
(* The pruning filter chain, as compareAll and the worker apply it.  The   *)
(* value names the filter that rejects the pair, or "pass".                *)
(* (minLength / maxLength) * 100 is NaN for two empty texts, and NaN < m   *)
(* is false.                                                               *)
(***************************************************************************)
\* a ratio filter that also rejects a ratio equal to the threshold (not the
\* code)
PruneRatioInclusive(norm1, norm2, minSimilarity) ==
    LET len1 == Len(norm1)
        len2 == Len(norm2)
        maxLength == Max2(len1, len2)
        minLength == Min2(len1, len2)
        maxAllowedDiff == DistanceCeiling(maxLength, minSimilarity)
    IN  IF maxLength > 0 /\ minLength * 10000 <= minSimilarity * maxLength
        THEN "ratio"
        ELSE IF Abs(len1 - len2) > maxAllowedDiff
        THEN "difference"
        ELSE IF minSimilarity > 0 /\ failsFrequencyCheck(norm1, norm2, maxAllowedDiff)
        THEN "frequency"
        ELSE "pass"

PruneCompareAll(norm1, norm2, minSimilarity) ==
    LET len1 == Len(norm1)
        len2 == Len(norm2)
        maxLength == Max2(len1, len2)
        minLength == Min2(len1, len2)
        maxAllowedDiff == DistanceCeiling(maxLength, minSimilarity)
    IN  IF maxLength > 0 /\ minLength * 10000 < minSimilarity * maxLength
        THEN "ratio"
        ELSE IF Abs(len1 - len2) > maxAllowedDiff
        THEN "difference"
        ELSE IF minSimilarity > 0 /\ failsFrequencyCheck(norm1, norm2, maxAllowedDiff)
        THEN "frequency"
        ELSE "pass"

PruneWorker(norm1, norm2, minSimilarity) ==
    LET len1 == Len(norm1)
        len2 == Len(norm2)
        maxLength == Max2(len1, len2)
        minLength == Min2(len1, len2)
        maxAllowedDiff == DistanceCeiling(maxLength, minSimilarity)
    IN  IF maxLength > 0 /\ minLength * 10000 < minSimilarity * maxLength
        THEN "ratio"
        ELSE IF Abs(len1 - len2) > maxAllowedDiff
        THEN "difference"
        ELSE IF minSimilarity > 0 /\ failsFrequencyCheck(norm1, norm2, maxAllowedDiff)
        THEN "frequency"
        ELSE "pass"

(***************************************************************************)
(* The text functions applied to drawn inputs.                             *)
(***************************************************************************)
NoCall == [fn |-> "none"]

CallLevenshteinDistance ==
    /\ call = NoCall
    /\ call' = [fn |-> "levenshteinDistance",
                value |-> levenshteinDistance(str1, str2),
                rowLength |-> levenshteinRowLength(str1, str2)]
    /\ UNCHANGED <<str1, str2, engineVars>>

CallLevenshteinDistanceFullMatrix ==
    /\ call = NoCall
    /\ call' = [fn |-> "levenshteinDistanceFullMatrix",
                value |-> levenshteinDistanceFullMatrix(str1, str2)]
    /\ UNCHANGED <<str1, str2, engineVars>>

CallLevenshteinDistanceWithThreshold ==
    /\ call = NoCall
    /\ \E maxDistance \in {Undefined} \cup {Some(c) : c \in 0..MaxCeiling} :
          call' = [fn |-> "levenshteinDistanceWithThreshold",
                   maxDistance |-> maxDistance,
                   value |-> levenshteinDistanceWithThreshold(str1, str2, maxDistance),
                   rowLength |-> thresholdRowLength(str1, str2, maxDistance)]
    /\ UNCHANGED <<str1, str2, engineVars>>

CallCalculateSimilarity ==
    /\ call = NoCall
    /\ call' = [fn |-> "calculateSimilarity",
                value |-> calculateSimilarity(str1, str2)]
    /\ UNCHANGED <<str1, str2, engineVars>>

ScoreUnder(thresholds) ==
    /\ call = NoCall
    /\ \E minSimilarity \in {Undefined} \cup {Some(m) : m \in thresholds} :
          call' = [fn |-> "calculateSimilarityWithThreshold",
                   minSimilarity |-> minSimilarity,
                   value |-> calculateSimilarityWithThreshold(str1, str2, minSimilarity)]
    /\ UNCHANGED <<str1, str2, engineVars>>

CallCalculateSimilarityWithThreshold == ScoreUnder(MinSimilarities)

CallFailsFrequencyCheck ==
    /\ call = NoCall
    /\ \E maxDistance \in 0..MaxCeiling :
          call' = [fn |-> "failsFrequencyCheck",
                   maxDistance |-> maxDistance,
                   value |-> failsFrequencyCheck(str1, str2, maxDistance)]
    /\ UNCHANGED <<str1, str2, engineVars>>

\* the filter chain of one pair of compareAll's loop, and of the worker's
CallPruningFilters ==
    /\ call = NoCall
    /\ \E minSimilarity \in MinSimilarities :
          call' = [fn |-> "pruningFilters",
                   minSimilarity |-> minSimilarity,
                   value |-> PruneCompareAll(str1, str2, minSimilarity),
                   inWorker |-> PruneWorker(str1, str2, minSimilarity)]
    /\ UNCHANGED <<str1, str2, engineVars>>

\* no FunctionExtractor in use
ExtractorOff == extractor = [state |-> "off"]

EngineOff ==
    /\ functions = << >>
    /\ options = [minSimilarity |-> 0, minLines |-> 0,
                  normalize |-> TRUE, excludeSelf |-> TRUE]
    /\ op = [name |-> "none"]
    /\ pc = "off"
    /\ ret = << >>
    /\ par = [path |-> "none"]

InitText ==
    /\ str1 \in Texts
    /\ str2 \in Texts
    /\ call = NoCall
    /\ EngineOff
    /\ ExtractorOff

NextText ==
    \/ CallLevenshteinDistance
    \/ CallLevenshteinDistanceFullMatrix
    \/ CallLevenshteinDistanceWithThreshold
    \/ CallCalculateSimilarity
    \/ CallCalculateSimilarityWithThreshold
    \/ CallFailsFrequencyCheck
    \/ CallPruningFilters

SpecText == InitText /\ [][NextText]_vars

(***************************************************************************)
(* Fragments (ExtractedFunction), options and results.                     *)
(***************************************************************************)
\* longest fragment array handed to the engine
MaxFrags == 3
\* compareAllParallel runs its workers from this many filtered fragments on.
\* The code's size is 100; the model scales it down with MaxFrags so that
\* both sides of the test are reached with short arrays.
ParallelThreshold == 3
\* the values os.cpus().length takes: 1, 2, 3 and 4 cores give 1, 1, 2
\* and 3 workers
CoreCounts == 1..4
\* the cap on the worker count
MaxWorkerCount == 8
\* findDuplicates' default threshold, 90
DefaultDuplicateThreshold == 9000

\* The fragments the arrays are drawn from.  Two share filePath and
\* startLine; two differ in filePath only, two in startLine only; two have
\* equal normalized text and different raw text; one normalizes to the
\* empty text; line counts are 1 and 2.
FragmentPool ==
    { [name |-> "f", filePath |-> "p", startLine |-> 1, endLine |-> 2,
       code |-> <<"a", " ", "b">>, normalizedCode |-> <<"a", " ", "b">>],
      [name |-> "g", filePath |-> "p", startLine |-> 1, endLine |-> 1,
       code |-> <<"a", "b", " ">>, normalizedCode |-> <<"a", "b">>],
      [name |-> "h", filePath |-> "q", startLine |-> 1, endLine |-> 2,
       code |-> <<"a", " ", " ", "b">>, normalizedCode |-> <<"a", " ", "b">>],
      [name |-> "k", filePath |-> "p", startLine |-> 2, endLine |-> 2,
       code |-> <<" ">>, normalizedCode |-> << >>] }

RECURSIVE FragmentSeqsOfLen(_)
FragmentSeqsOfLen(n) ==
    IF n = 0 THEN {<< >>}
    ELSE {Append(fs, f) : fs \in FragmentSeqsOfLen(n - 1), f \in FragmentPool}

FragmentSeqs == UNION {FragmentSeqsOfLen(n) : n \in 0..MaxFrags}

\* ComparisonOptions, every default filled in (minSimilarity = 0,
\* minLines = 0, normalize = true, excludeSelf = true)
OptionSets ==
    [minSimilarity : {0, 5000, 6667}, minLines : {0, 2},
     normalize : BOOLEAN, excludeSelf : BOOLEAN]

LineCount(f) == f.endLine - f.startLine + 1

FunctionReference(f) ==
    [name |-> f.name, filePath |-> f.filePath,
     startLine |-> f.startLine, endLine |-> f.endLine]

\* A SimilarityResult.  pair is not a field of the code's object: it keeps
\* the (0-based) positions i, j of the loop that built the result.
SimilarityResult(func1, func2, rawScore, normalizedScore, i, j) ==
    [function1 |-> FunctionReference(func1),
     function2 |-> FunctionReference(func2),
     similarityScore |-> rawScore,
     normalizedScore |-> normalizedScore,
     lines1 |-> LineCount(func1),
     lines2 |-> LineCount(func2),
     pair |-> <<i, j>>]

\* the object the caller sees
Visible(r) ==
    [function1 |-> r.function1, function2 |-> r.function2,
     similarityScore |-> r.similarityScore,
     normalizedScore |-> r.normalizedScore,
     lines1 |-> r.lines1, lines2 |-> r.lines2]

VisibleList(rs) == [k \in 1..Len(rs) |-> Visible(rs[k])]

(***************************************************************************)
(* results.sort((a, b) => b.normalizedScore - a.normalizedScore):          *)
(* Array.prototype.sort is stable, so results of equal score keep their    *)
(* order.                                                                  *)
(***************************************************************************)
RECURSIVE InsertByScore(_, _)
InsertByScore(sorted, r) ==
    IF sorted = << >> THEN <<r>>
    ELSE IF Head(sorted).normalizedScore >= r.normalizedScore
    THEN <<Head(sorted)>> \o InsertByScore(Tail(sorted), r)
    ELSE <<r>> \o sorted

RECURSIVE SortFrom(_, _, _)
SortFrom(rs, k, sorted) ==
    IF k > Len(rs) THEN sorted
    ELSE SortFrom(rs, k + 1, InsertByScore(sorted, rs[k]))

RECURSIVE InsertBeforeEqual(_, _)
\* an unstable sort: a result goes in front of those of equal score
InsertBeforeEqual(sorted, r) ==
    IF sorted = << >> THEN <<r>>
    ELSE IF Head(sorted).normalizedScore > r.normalizedScore
    THEN <<Head(sorted)>> \o InsertBeforeEqual(Tail(sorted), r)
    ELSE <<r>> \o sorted

RECURSIVE SortFromUnstable(_, _, _)
SortFromUnstable(rs, k, sorted) ==
    IF k > Len(rs) THEN sorted
    ELSE SortFromUnstable(rs, k + 1, InsertBeforeEqual(sorted, rs[k]))

SortUnstable(rs) == SortFromUnstable(rs, 1, << >>)

SortByScoreDesc(rs) == SortFrom(rs, 1, << >>)

(***************************************************************************)
(* FunctionComparator.compareAll                                           *)
(***************************************************************************)
\* a filter that lets a fragment one line short through
FilterOffByOne(fs, minLines) ==
    IF minLines > 0
    THEN SelectSeq(fs, LAMBDA f : LineCount(f) + 1 >= minLines)
    ELSE fs

\* functions.filter((f) => f.endLine - f.startLine + 1 >= minLines)
FilterByMinLines(fs, minLines) ==
    IF minLines > 0
    THEN SelectSeq(fs, LAMBDA f : LineCount(f) >= minLines)
    ELSE fs

\* a self test that never skips
IsSelfPairNever(excludeSelf, func1, func2) == FALSE

\* excludeSelf && same filePath && same startLine
IsSelfPair(excludeSelf, func1, func2) ==
    /\ excludeSelf
    /\ func1.filePath = func2.filePath
    /\ func1.startLine = func2.startLine

\* a threshold test that lets every scored pair through
MeetsThresholdAlways(normalizedScore, minSimilarity) == TRUE

\* compareAll's test before it pushes: normalizedScore >= minSimilarity
MeetsThreshold(normalizedScore, minSimilarity) ==
    normalizedScore >= minSimilarity

\* the body of the inner loop for positions i < j (0-based) of the filtered
\* array: the results it pushes, none or one
ComparePair(fs, i, j, opts) ==
    LET func1 == fs[i + 1]
        func2 == fs[j + 1]
        norm1 == IF opts.normalize THEN func1.normalizedCode ELSE func1.code
        norm2 == IF opts.normalize THEN func2.normalizedCode ELSE func2.code
    IN  IF IsSelfPair(opts.excludeSelf, func1, func2) THEN << >>
        ELSE IF PruneCompareAll(norm1, norm2, opts.minSimilarity) # "pass"
        THEN << >>
        ELSE LET normalizedScore ==
                     calculateSimilarityWithThreshold(
                         norm1, norm2, Some(opts.minSimilarity))
                 rawScore ==
                     IF opts.normalize
                     THEN calculateSimilarityWithThreshold(
                              func1.code, func2.code, Some(opts.minSimilarity))
                     ELSE normalizedScore
             IN  IF MeetsThreshold(normalizedScore, opts.minSimilarity)
                 THEN <<SimilarityResult(func1, func2, rawScore,
                                         normalizedScore, i, j)>>
                 ELSE << >>

\* the two nested loops, i from 0 and j from i + 1
RECURSIVE CompareLoop(_, _, _, _, _)
CompareLoop(fs, i, j, opts, results) ==
    IF i >= Len(fs) THEN results
    ELSE IF j >= Len(fs) THEN CompareLoop(fs, i + 1, i + 2, opts, results)
    ELSE CompareLoop(fs, i, j + 1, opts, results \o ComparePair(fs, i, j, opts))

compareAll(fs, opts) ==
    SortByScoreDesc(
        CompareLoop(FilterByMinLines(fs, opts.minLines), 0, 1, opts, << >>))

(***************************************************************************)
(* compareAll's progress reports: the calls onProgress receives, as pairs  *)
(* <<completed, total>>, and the counter when the loops end.               *)
(***************************************************************************)
\* progress is reported every 1/100 of the comparisons
ProgressSteps == 100

\* Math.max(1, Math.floor(totalComparisons / 100))
ProgressInterval(totalComparisons) ==
    Max2(1, totalComparisons \div ProgressSteps)

\* the branch of the loop body that handles the pair
PairBranch(fs, i, j, opts) ==
    LET func1 == fs[i + 1]
        func2 == fs[j + 1]
        norm1 == IF opts.normalize THEN func1.normalizedCode ELSE func1.code
        norm2 == IF opts.normalize THEN func2.normalizedCode ELSE func2.code
    IN  IF IsSelfPair(opts.excludeSelf, func1, func2) THEN "self"
        ELSE IF PruneCompareAll(norm1, norm2, opts.minSimilarity) # "pass"
        THEN PruneCompareAll(norm1, norm2, opts.minSimilarity)
        ELSE "scored"

\* a self-skip that does not count the pair (not the code)
RECURSIVE ProgressLoopSkipUncounted(_, _, _, _, _, _, _)
ProgressLoopSkipUncounted(fs, i, j, opts, totalComparisons, completedComparisons, calls) ==
    IF i >= Len(fs)
    THEN [completedComparisons |-> completedComparisons, calls |-> calls]
    ELSE IF j >= Len(fs)
    THEN ProgressLoopSkipUncounted(fs, i + 1, i + 2, opts, totalComparisons,
                                   completedComparisons, calls)
    ELSE IF PairBranch(fs, i, j, opts) = "self"
    THEN ProgressLoopSkipUncounted(fs, i, j + 1, opts, totalComparisons,
                                   completedComparisons, calls)
    ELSE LET completed == completedComparisons + 1
         IN  ProgressLoopSkipUncounted(fs, i, j + 1, opts, totalComparisons,
                 completed,
                 IF completed % ProgressInterval(totalComparisons) = 0
                 THEN Append(calls, <<completed, totalComparisons>>)
                 ELSE calls)

\* the two loops: every branch increments completedComparisons; every
\* branch but the self-skip reports when the counter is a multiple of
\* progressInterval
RECURSIVE ProgressLoop(_, _, _, _, _, _, _)
ProgressLoop(fs, i, j, opts, totalComparisons, completedComparisons, calls) ==
    IF i >= Len(fs)
    THEN [completedComparisons |-> completedComparisons, calls |-> calls]
    ELSE IF j >= Len(fs)
    THEN ProgressLoop(fs, i + 1, i + 2, opts, totalComparisons,
                      completedComparisons, calls)
    ELSE LET completed == completedComparisons + 1
         IN  ProgressLoop(fs, i, j + 1, opts, totalComparisons, completed,
                 IF /\ PairBranch(fs, i, j, opts) # "self"
                    /\ completed % ProgressInterval(totalComparisons) = 0
                 THEN Append(calls, <<completed, totalComparisons>>)
                 ELSE calls)

\* compareAll with an onProgress option: the loops, then the final report
ProgressOfCompareAll(fs, opts) ==
    LET filteredFunctions == FilterByMinLines(fs, opts.minLines)
        n == Len(filteredFunctions)
        totalComparisons == (n * (n - 1)) \div 2
        loops == ProgressLoop(filteredFunctions, 0, 1, opts,
                              totalComparisons, 0, << >>)
    IN  [completedComparisons |-> loops.completedComparisons,
         calls |-> Append(loops.calls, <<totalComparisons, totalComparisons>>)]

findDuplicates(fs, threshold) ==
    compareAll(fs, [minSimilarity |-> threshold, minLines |-> 0,
                    normalize |-> TRUE, excludeSelf |-> TRUE])

(***************************************************************************)
(* FunctionComparator.compareOne                                           *)
(***************************************************************************)
\* the body of the loop for the fragment at position k (0-based)
\* a loop body that scores with the thresholded scorer, as compareAll does
\* (not the code)
CompareOneStepThresholded(targetFunction, func, k, opts) ==
    IF opts.minLines > 0 /\ LineCount(func) < opts.minLines THEN << >>
    ELSE IF func.filePath = targetFunction.filePath
            /\ func.startLine = targetFunction.startLine
    THEN << >>
    ELSE LET normalizedScore ==
                 IF opts.normalize
                 THEN calculateSimilarityWithThreshold(
                          targetFunction.normalizedCode, func.normalizedCode,
                          Some(opts.minSimilarity))
                 ELSE calculateSimilarityWithThreshold(
                          targetFunction.code, func.code,
                          Some(opts.minSimilarity))
             rawScore == calculateSimilarity(targetFunction.code, func.code)
         IN  IF normalizedScore >= opts.minSimilarity
             THEN <<SimilarityResult(targetFunction, func, rawScore,
                                     normalizedScore, k, k)>>
             ELSE << >>

CompareOneStep(targetFunction, func, k, opts) ==
    IF opts.minLines > 0 /\ LineCount(func) < opts.minLines THEN << >>
    ELSE IF func.filePath = targetFunction.filePath
            /\ func.startLine = targetFunction.startLine
    THEN << >>
    ELSE LET normalizedScore ==
                 IF opts.normalize
                 THEN calculateSimilarity(targetFunction.normalizedCode,
                                          func.normalizedCode)
                 ELSE calculateSimilarity(targetFunction.code, func.code)
             rawScore == calculateSimilarity(targetFunction.code, func.code)
         IN  IF normalizedScore >= opts.minSimilarity
             THEN <<SimilarityResult(targetFunction, func, rawScore,
                                     normalizedScore, k, k)>>
             ELSE << >>

RECURSIVE CompareOneLoop(_, _, _, _, _)
CompareOneLoop(targetFunction, allFunctions, k, opts, results) ==
    IF k >= Len(allFunctions) THEN results
    ELSE CompareOneLoop(targetFunction, allFunctions, k + 1, opts,
             results \o CompareOneStep(targetFunction, allFunctions[k + 1], k, opts))

compareOne(targetFunction, allFunctions, opts) ==
    IF opts.minLines > 0 /\ LineCount(targetFunction) < opts.minLines
    THEN << >>
    ELSE SortByScoreDesc(
             CompareOneLoop(targetFunction, allFunctions, 0, opts, << >>))

(***************************************************************************)
(* worker.ts: the script one worker thread runs on its workerData          *)
(***************************************************************************)
\* the body of the worker's inner loop for positions i < j (0-based): the
\* WorkerResults it pushes, none or one
WorkerPair(fs, i, j, minSimilarity, normalize) ==
    LET func1 == fs[i + 1]
        func2 == fs[j + 1]
        norm1 == IF normalize THEN func1.normalizedCode ELSE func1.code
        norm2 == IF normalize THEN func2.normalizedCode ELSE func2.code
    IN  IF PruneWorker(norm1, norm2, minSimilarity) # "pass" THEN << >>
        ELSE LET normalizedScore ==
                     calculateSimilarityWithThreshold(
                         norm1, norm2, Some(minSimilarity))
                 rawScore ==
                     IF normalize
                     THEN calculateSimilarityWithThreshold(
                              func1.code, func2.code, Some(minSimilarity))
                     ELSE normalizedScore
             IN  IF normalizedScore >= minSimilarity
                 THEN <<[idx1 |-> i, idx2 |-> j,
                         normalizedScore |-> normalizedScore,
                         rawScore |-> rawScore,
                         lines1 |-> LineCount(func1),
                         lines2 |-> LineCount(func2)]>>
                 ELSE << >>

\* an inner loop that restarts at column 0 on every later row (not the code)
RECURSIVE WorkerLoopFromZero(_, _, _, _, _, _, _)
WorkerLoopFromZero(fs, i, j, endIdx, minSimilarity, normalize, results) ==
    IF i >= endIdx THEN results
    ELSE IF j >= Len(fs)
    THEN WorkerLoopFromZero(fs, i + 1, 0, endIdx, minSimilarity, normalize,
                            results)
    ELSE WorkerLoopFromZero(fs, i, j + 1, endIdx, minSimilarity, normalize,
             results \o WorkerPair(fs, i, j, minSimilarity, normalize))

\* i from startIdx to endIdx - 1, j from i + 1 to functions.length - 1
RECURSIVE WorkerLoop(_, _, _, _, _, _, _)
WorkerLoop(fs, i, j, endIdx, minSimilarity, normalize, results) ==
    IF i >= endIdx THEN results
    ELSE IF j >= Len(fs)
    THEN WorkerLoop(fs, i + 1, i + 2, endIdx, minSimilarity, normalize, results)
    ELSE WorkerLoop(fs, i, j + 1, endIdx, minSimilarity, normalize,
             results \o WorkerPair(fs, i, j, minSimilarity, normalize))

\* the message the worker posts
WorkerMain(workerData) ==
    WorkerLoop(workerData.functions, workerData.startIdx,
               workerData.startIdx + 1, workerData.endIdx,
               workerData.minSimilarity, workerData.normalize, << >>)

(***************************************************************************)
(* FunctionComparatorParallel.compareAllParallel                           *)
(***************************************************************************)
\* Math.max(1, Math.min(numCores - 1, 8))
NumWorkers(numCores) == Max2(1, Min2(numCores - 1, MaxWorkerCount))

\* a chunk size rounded down (not the code)
ChunkSizeFloor(n, numWorkers) == n \div numWorkers

\* Math.ceil(n / numWorkers)
ChunkSize(n, numWorkers) == (n + numWorkers - 1) \div numWorkers

\* the spawn loop from worker w on: the workerData of every worker created
RECURSIVE SpawnFrom(_, _, _, _, _, _)
SpawnFrom(w, numWorkers, chunkSize, filteredFunctions, opts, spawned) ==
    LET startIdx == w * chunkSize
        endIdx == Min2((w + 1) * chunkSize, Len(filteredFunctions))
    IN  IF w >= numWorkers \/ startIdx >= Len(filteredFunctions) THEN spawned
        ELSE SpawnFrom(w + 1, numWorkers, chunkSize, filteredFunctions, opts,
                 Append(spawned,
                        [functions |-> filteredFunctions,
                         startIdx |-> startIdx,
                         endIdx |-> endIdx,
                         minSimilarity |-> opts.minSimilarity,
                         normalize |-> opts.normalize]))

SpawnWorkers(filteredFunctions, opts, numCores) ==
    SpawnFrom(0, NumWorkers(numCores),
              ChunkSize(Len(filteredFunctions), NumWorkers(numCores)),
              filteredFunctions, opts, << >>)

\* a join that takes messages in the order they arrive: the message goes to
\* the first promise slot still empty
SettleInArrivalOrder(slots, w, message) ==
    LET first == CHOOSE k \in 1..Len(slots) :
                    /\ ~IsDefined(slots[k])
                    /\ \A l \in 1..(k - 1) : IsDefined(slots[l])
    IN  [slots EXCEPT ![first] = Some(message)]

\* worker.on('message', resolve) under Promise.all(promises): worker w's
\* message becomes element w of allWorkerResults, whenever it arrives
SettlePromise(slots, w, message) ==
    [slots EXCEPT ![w] = Some(message)]

\* the merge loops: every WorkerResult of every worker, in array order,
\* as a SimilarityResult
RECURSIVE MergeFrom(_, _, _, _)
MergeFrom(allWorkerResults, filteredFunctions, w, mergedResults) ==
    IF w > Len(allWorkerResults) THEN mergedResults
    ELSE LET workerResults == allWorkerResults[w]
             converted ==
                 [k \in 1..Len(workerResults) |->
                     LET result == workerResults[k]
                         func1 == filteredFunctions[result.idx1 + 1]
                         func2 == filteredFunctions[result.idx2 + 1]
                     IN  [function1 |-> FunctionReference(func1),
                          function2 |-> FunctionReference(func2),
                          similarityScore |-> result.rawScore,
                          normalizedScore |-> result.normalizedScore,
                          lines1 |-> result.lines1,
                          lines2 |-> result.lines2,
                          pair |-> <<result.idx1, result.idx2>>]]
         IN  MergeFrom(allWorkerResults, filteredFunctions, w + 1,
                       mergedResults \o converted)

MergeAndSort(allWorkerResults, filteredFunctions) ==
    SortByScoreDesc(MergeFrom(allWorkerResults, filteredFunctions, 1, << >>))

(***************************************************************************)
(* The engine's operations on a drawn fragment array and drawn options.    *)
(***************************************************************************)
TextOff ==
    /\ str1 = << >>
    /\ str2 = << >>
    /\ call = [fn |-> "off"]

Init ==
    /\ functions \in FragmentSeqs
    /\ options \in OptionSets
    /\ op = [name |-> "none"]
    /\ pc = "idle"
    /\ ret = << >>
    /\ par = [path |-> "none"]
    /\ TextOff
    /\ ExtractorOff

\* a compareAll that filters the caller's array in place (not the code)
CompareAllInPlace ==
    /\ pc = "idle"
    /\ \E onProgress \in BOOLEAN :
          op' = [name |-> "compareAll",
                 onProgress |-> onProgress,
                 progress |-> IF onProgress
                              THEN ProgressOfCompareAll(functions, options)
                              ELSE [completedComparisons |-> 0, calls |-> << >>]]
    /\ functions' = FilterByMinLines(functions, options.minLines)
    /\ ret' = compareAll(functions, options)
    /\ pc' = "returned"
    /\ UNCHANGED <<options, par, textVars, extractor>>

\* compareAll(functions, options), synchronous
CompareAll ==
    /\ pc = "idle"
    /\ \E onProgress \in BOOLEAN :
          op' = [name |-> "compareAll",
                 onProgress |-> onProgress,
                 progress |-> IF onProgress
                              THEN ProgressOfCompareAll(functions, options)
                              ELSE [completedComparisons |-> 0, calls |-> << >>]]
    /\ ret' = compareAll(functions, options)
    /\ pc' = "returned"
    /\ UNCHANGED <<functions, options, par, textVars, extractor>>

\* findDuplicates(functions, threshold), threshold defaulting to 90
FindDuplicates ==
    /\ pc = "idle"
    /\ \E threshold \in {5000, DefaultDuplicateThreshold, 10000} :
          /\ op' = [name |-> "findDuplicates", threshold |-> threshold]
          /\ ret' = findDuplicates(functions, threshold)
    /\ pc' = "returned"
    /\ UNCHANGED <<functions, options, par, textVars, extractor>>

\* compareOne(targetFunction, functions, options)
CompareOne ==
    /\ pc = "idle"
    /\ \E targetFunction \in FragmentPool :
          /\ op' = [name |-> "compareOne", targetFunction |-> targetFunction]
          /\ ret' = compareOne(targetFunction, functions, options)
    /\ pc' = "returned"
    /\ UNCHANGED <<functions, options, par, textVars, extractor>>

\* a fallback that calls compareAll without the caller's options (not the
\* code)
ParallelStartFallbackDefaults ==
    /\ pc = "idle"
    /\ op' = [name |-> "compareAllParallel"]
    /\ LET filteredFunctions == FilterByMinLines(functions, options.minLines)
       IN  IF Len(filteredFunctions) < ParallelThreshold
           THEN /\ ret' = compareAll(filteredFunctions,
                                     [minSimilarity |-> 0, minLines |-> 0,
                                      normalize |-> TRUE, excludeSelf |-> TRUE])
                /\ pc' = "resolved"
                /\ par' = [path |-> "fallback"]
           ELSE \E numCores \in CoreCounts :
                   LET spawned == SpawnWorkers(filteredFunctions, options, numCores)
                   IN  /\ ret' = ret
                       /\ pc' = "awaiting"
                       /\ par' = [path |-> "workers",
                                  filteredFunctions |-> filteredFunctions,
                                  numWorkers |-> NumWorkers(numCores),
                                  workerData |-> spawned,
                                  workers |-> [w \in 1..Len(spawned) |-> "running"],
                                  arrival |-> << >>,
                                  allWorkerResults |->
                                      [w \in 1..Len(spawned) |-> Undefined]]
    /\ UNCHANGED <<functions, options, textVars, extractor>>

\* compareAllParallel up to its await: the fallback to compareAll on the
\* filtered array, or the workers spawned
ParallelStart ==
    /\ pc = "idle"
    /\ op' = [name |-> "compareAllParallel"]
    /\ LET filteredFunctions == FilterByMinLines(functions, options.minLines)
       IN  IF Len(filteredFunctions) < ParallelThreshold
           THEN /\ ret' = compareAll(filteredFunctions, options)
                /\ pc' = "resolved"
                /\ par' = [path |-> "fallback"]
           ELSE \E numCores \in CoreCounts :
                   LET spawned == SpawnWorkers(filteredFunctions, options, numCores)
                   IN  /\ ret' = ret
                       /\ pc' = "awaiting"
                       /\ par' = [path |-> "workers",
                                  filteredFunctions |-> filteredFunctions,
                                  numWorkers |-> NumWorkers(numCores),
                                  workerData |-> spawned,
                                  workers |-> [w \in 1..Len(spawned) |-> "running"],
                                  arrival |-> << >>,
                                  allWorkerResults |->
                                      [w \in 1..Len(spawned) |-> Undefined]]
    /\ UNCHANGED <<functions, options, textVars, extractor>>

\* a worker finishes its loops and posts its message
WorkerMessage(w) ==
    /\ par.path = "workers"
    /\ w <= Len(par.workers)
    /\ par.workers[w] = "running"
    /\ par' = [par EXCEPT
                 !.workers[w] = "exited",
                 !.arrival = Append(par.arrival, w),
                 !.allWorkerResults =
                     SettlePromise(par.allWorkerResults, w,
                                   WorkerMain(par.workerData[w]))]
    /\ UNCHANGED <<functions, options, op, pc, ret, textVars, extractor>>

\* an error handler that fulfils the promise with an empty list (not the code)
WorkerErrorSwallowed(w) ==
    /\ par.path = "workers"
    /\ w <= Len(par.workers)
    /\ par.workers[w] = "running"
    /\ par' = [par EXCEPT
                 !.workers[w] = "failed",
                 !.allWorkerResults = SettlePromise(par.allWorkerResults, w, << >>)]
    /\ UNCHANGED <<functions, options, op, pc, ret, textVars, extractor>>

\* a worker raises an error: its promise rejects, and with it Promise.all,
\* so the await throws and compareAllParallel's promise rejects
WorkerError(w) ==
    /\ par.path = "workers"
    /\ w <= Len(par.workers)
    /\ par.workers[w] = "running"
    /\ par' = [par EXCEPT !.workers[w] = "failed"]
    /\ pc' = IF pc = "awaiting" THEN "rejected" ELSE pc
    /\ UNCHANGED <<functions, options, op, ret, textVars, extractor>>

\* every promise is fulfilled: terminate the workers, merge, sort, return
ParallelJoin ==
    /\ pc = "awaiting"
    /\ \A w \in 1..Len(par.workers) : IsDefined(par.allWorkerResults[w])
    /\ par' = [par EXCEPT
                 !.workers = [w \in 1..Len(par.workers) |-> "terminated"]]
    /\ ret' = MergeAndSort(
                  [w \in 1..Len(par.workers) |-> ValueOf(par.allWorkerResults[w])],
                  par.filteredFunctions)
    /\ pc' = "resolved"
    /\ UNCHANGED <<functions, options, op, textVars, extractor>>

Next ==
    \/ CompareAll
    \/ FindDuplicates
    \/ CompareOne
    \/ ParallelStart
    \/ \E w \in 1..MaxWorkerCount : WorkerMessage(w)
    \/ \E w \in 1..MaxWorkerCount : WorkerError(w)
    \/ ParallelJoin

Spec == Init /\ [][Next]_vars

(***************************************************************************)
(* The two distance functions on longer texts, where the rows of the       *)
(* table differ from its columns.                                          *)
(***************************************************************************)
LongTextLen == 5

LongTexts == UNION {TextsOfLen(n) : n \in (LongTextLen - 1)..LongTextLen}

InitLong ==
    /\ str1 \in LongTexts
    /\ str2 \in LongTexts
    /\ call = NoCall
    /\ EngineOff
    /\ ExtractorOff

\* thresholds of the scorer on the longer texts: 50 and 80
LongMinSimilarities == {5000, 8000}

CallCalculateSimilarityLong == ScoreUnder(LongMinSimilarities)

NextLong ==
    \/ CallLevenshteinDistance
    \/ CallLevenshteinDistanceFullMatrix
    \/ CallLevenshteinDistanceWithThreshold
    \/ CallCalculateSimilarityLong

SpecLong == InitLong /\ [][NextLong]_vars

(***************************************************************************)
(* The spawn loop of compareAllParallel alone, on filtered arrays of every *)
(* length from 1 and every core count.                                     *)
(***************************************************************************)
MaxSpawnFrags == 12
MaxCoreCount == 10

\* a filtered array of n fragments
FilteredArrays ==
    {[k \in 1..n |-> [filePath |-> "p", startLine |-> k, endLine |-> k,
                      code |-> "a", normalizedCode |-> "a"]] :
        n \in 1..MaxSpawnFrags}

InitSpawn ==
    /\ functions \in FilteredArrays
    /\ options = [minSimilarity |-> 0, minLines |-> 0,
                  normalize |-> TRUE, excludeSelf |-> TRUE]
    /\ op = [name |-> "none"]
    /\ pc = "spawning"
    /\ ret = << >>
    /\ par = [path |-> "none"]
    /\ TextOff
    /\ ExtractorOff

\* lines 190-222 of compareAllParallel on an array already filtered
SpawnOnly ==
    /\ pc = "spawning"
    /\ \E numCores \in 1..MaxCoreCount :
          par' = [path |-> "spawned",
                  numWorkers |-> NumWorkers(numCores),
                  workerData |-> SpawnWorkers(functions, options, numCores)]
    /\ pc' = "spawned"
    /\ UNCHANGED <<functions, options, op, ret, textVars, extractor>>

NextSpawn == SpawnOnly

SpecSpawn == InitSpawn /\ [][NextSpawn]_vars

(***************************************************************************)
(* The earlier, unoptimized FunctionComparator.compareAll (second half of  *)
(* src/comparator.ts, with src/levenshtein.ts): a ratio filter and the     *)
(* exact scorer over the full-matrix distance, on codes it normalizes      *)
(* itself.                                                                 *)
(***************************************************************************)
\* .replace(/\s+/g, ' '): every run of whitespace becomes one space
RECURSIVE CollapseWhitespace(_, _, _)
CollapseWhitespace(code, k, out) ==
    IF k > Len(code) THEN out
    ELSE IF code[k] = " " /\ k > 1 /\ code[k - 1] = " "
    THEN CollapseWhitespace(code, k + 1, out)
    ELSE CollapseWhitespace(code, k + 1, Append(out, code[k]))

\* .trim()
RECURSIVE Trim(_)
Trim(text) ==
    IF Len(text) = 0 THEN text
    ELSE IF text[1] = " " THEN Trim(SubSeq(text, 2, Len(text)))
    ELSE IF text[Len(text)] = " " THEN Trim(SubSeq(text, 1, Len(text) - 1))
    ELSE text

\* normalizeCode.  The two comment patterns need a "/", which no text of
\* the model holds, so the first two replacements return their input.
normalizeCode(code) == Trim(CollapseWhitespace(code, 1, << >>))

\* calculateSimilarity of src/levenshtein.ts
calculateSimilarityFullMatrix(a, b) ==
    IF a = b THEN 10000
    ELSE IF Len(a) = 0 /\ Len(b) = 0 THEN 10000
    ELSE IF Len(a) = 0 \/ Len(b) = 0 THEN 0
    ELSE RoundedScore(Max2(Len(a), Len(b)), levenshteinDistanceFullMatrix(a, b))

ComparePairUnoptimized(fs, i, j, opts) ==
    LET func1 == fs[i + 1]
        func2 == fs[j + 1]
        norm1 == IF opts.normalize THEN normalizeCode(func1.code) ELSE func1.code
        norm2 == IF opts.normalize THEN normalizeCode(func2.code) ELSE func2.code
        maxLength == Max2(Len(norm1), Len(norm2))
        minLength == Min2(Len(norm1), Len(norm2))
    IN  IF /\ opts.excludeSelf
           /\ func1.filePath = func2.filePath
           /\ func1.startLine = func2.startLine
        THEN << >>
        ELSE IF maxLength > 0 /\ minLength * 10000 < opts.minSimilarity * maxLength
        THEN << >>
        ELSE LET normalizedScore == calculateSimilarityFullMatrix(norm1, norm2)
                 rawScore ==
                     IF opts.normalize
                     THEN calculateSimilarityFullMatrix(func1.code, func2.code)
                     ELSE normalizedScore
             IN  IF normalizedScore >= opts.minSimilarity
                 THEN <<SimilarityResult(func1, func2, rawScore,
                                         normalizedScore, i, j)>>
                 ELSE << >>

RECURSIVE CompareLoopUnoptimized(_, _, _, _, _)
CompareLoopUnoptimized(fs, i, j, opts, results) ==
    IF i >= Len(fs) THEN results
    ELSE IF j >= Len(fs)
    THEN CompareLoopUnoptimized(fs, i + 1, i + 2, opts, results)
    ELSE CompareLoopUnoptimized(fs, i, j + 1, opts,
             results \o ComparePairUnoptimized(fs, i, j, opts))

compareAllUnoptimized(fs, opts) ==
    SortByScoreDesc(
        CompareLoopUnoptimized(FilterByMinLines(fs, opts.minLines), 0, 1,
                               opts, << >>))

\* the fragments of FragmentPool and one more, whose normalized text is as
\* long as f's and one substitution away from it
UnoptimizedPool ==
    FragmentPool \cup
    { [name |-> "v", filePath |-> "r", startLine |-> 1, endLine |-> 2,
       code |-> <<" ", "a", " ", "a">>, normalizedCode |-> <<"a", " ", "a">>] }

RECURSIVE UnoptimizedSeqsOfLen(_)
UnoptimizedSeqsOfLen(n) ==
    IF n = 0 THEN {<< >>}
    ELSE {Append(fs, f) : fs \in UnoptimizedSeqsOfLen(n - 1),
                          f \in UnoptimizedPool}

InitBoth ==
    /\ functions \in UNION {UnoptimizedSeqsOfLen(n) : n \in 0..MaxFrags}
    /\ options \in OptionSets
    /\ op = [name |-> "none"]
    /\ pc = "idle"
    /\ ret = << >>
    /\ par = [path |-> "none"]
    /\ TextOff
    /\ ExtractorOff

CompareAllUnoptimized ==
    /\ pc = "idle"
    /\ op' = [name |-> "compareAllUnoptimized"]
    /\ ret' = compareAllUnoptimized(functions, options)
    /\ pc' = "returned"
    /\ UNCHANGED <<functions, options, par, textVars, extractor>>

NextBoth ==
    \/ CompareAll
    \/ CompareAllUnoptimized

SpecBoth == InitBoth /\ [][NextBoth]_vars

(***************************************************************************)
(* FunctionExtractor.extractFromDirectory.  The instance keeps the array   *)
(* being filled in its field `functions`; a call replaces the field by a   *)
(* fresh array, awaits once per TypeScript file it finds (the work on the  *)
(* file itself is synchronous and happens before the await yields), and    *)
(* returns whatever array the field holds when it resumes for the last     *)
(* time.  Arrays are objects: extractor.arrays holds their contents by     *)
(* identity and extractor.functions is the identity the field holds.       *)
(* A path is described by the number of functions in each of its           *)
(* TypeScript files, in the order scanDirectory visits them.               *)
(***************************************************************************)
MaxFiles == 2

MaxFunctionsInFile == 1

ExtractCalls == 1..2

ParsedTrees == UNION {[1..n -> 0..MaxFunctionsInFile] : n \in 0..MaxFiles}

\* the functions traverseAST finds in the k-th file under the path of call c
FunctionsOfFile(c, tree, k) ==
    [n \in 1..tree[k] |-> [path |-> c, file |-> k, index |-> n]]

\* all functions under the path of call c, from its k-th file on
RECURSIVE FunctionsUnder(_, _, _)
FunctionsUnder(c, tree, k) ==
    IF k > Len(tree) THEN << >>
    ELSE FunctionsOfFile(c, tree, k) \o FunctionsUnder(c, tree, k + 1)

\* extractFunctionsFromFile on the next file of call c: traverseAST pushes
\* onto the array the field holds now
ExtractFunctionsFromFile(ex, c) ==
    [ex EXCEPT
       !.arrays[ex.functions] =
           @ \o FunctionsOfFile(c, ex.dirs[c], ex.calls[c].file),
       !.calls[c].file = @ + 1]

InitExtract ==
    /\ TextOff
    /\ EngineOff
    /\ \E dir1 \in ParsedTrees, dir2 \in ParsedTrees :
          extractor = [state     |-> "on",
                       functions |-> 1,
                       arrays    |-> << << >> >>,
                       dirs      |-> <<dir1, dir2>>,
                       calls     |-> [c \in ExtractCalls |->
                                        [pc |-> "idle", file |-> 1,
                                         returned |-> 0, result |-> << >>]]]

\* extractFromDirectory is called: the field gets a fresh array, and the
\* call runs up to its first await, the first file's functions included
ExtractFromDirectory(c) ==
    /\ extractor.state = "on"
    /\ extractor.calls[c].pc = "idle"
    /\ LET fresh == [extractor EXCEPT
                       !.arrays = Append(@, << >>),
                       !.functions = Len(extractor.arrays) + 1,
                       !.calls[c].pc = "awaiting"]
       IN  extractor' = IF Len(extractor.dirs[c]) > 0
                        THEN ExtractFunctionsFromFile(fresh, c)
                        ELSE fresh
    /\ UNCHANGED <<functions, options, op, pc, ret, par, textVars>>

\* the call resumes after an await: the next file, or `return this.functions`
ExtractResume(c) ==
    /\ extractor.state = "on"
    /\ extractor.calls[c].pc = "awaiting"
    /\ extractor' =
          IF extractor.calls[c].file <= Len(extractor.dirs[c])
          THEN ExtractFunctionsFromFile(extractor, c)
          ELSE [extractor EXCEPT
                  !.calls[c].pc = "returned",
                  !.calls[c].returned = extractor.functions,
                  !.calls[c].result = extractor.arrays[extractor.functions]]
    /\ UNCHANGED <<functions, options, op, pc, ret, par, textVars>>

NextExtract ==
    \/ \E c \in ExtractCalls : ExtractFromDirectory(c)
    \/ \E c \in ExtractCalls : ExtractResume(c)

SpecExtract == InitExtract /\ [][NextExtract]_vars

(***************************************************************************)
(* Text functions and engine operations together.                          *)
(***************************************************************************)
InitAll == InitText \/ Init

NextAll == NextText \/ Next

SpecAll == InitAll /\ [][NextAll]_vars

(***************************************************************************)
(* Properties                                                              *)
(***************************************************************************)
Returned == pc \in {"returned", "resolved"}

ViaWorkers == pc = "resolved" /\ par.path = "workers"

SameIdentity(r) ==
    /\ r.function1.filePath = r.function2.filePath
    /\ r.function1.startLine = r.function2.startLine

RefLineCount(ref) == ref.endLine - ref.startLine + 1

\* positions i < j of fs hold fragments of one identity
HasSelfPair(fs) ==
    \E i, j \in 1..Len(fs) :
        /\ i < j
        /\ fs[i].filePath = fs[j].filePath
        /\ fs[i].startLine = fs[j].startLine

\* C1: compareAllParallel returns the list compareAll returns for the same
\* fragments and options: same pairs, same scores, same order.
C1_ParallelEqualsSequential ==
    (op.name = "compareAllParallel" /\ pc = "resolved")
        => VisibleList(ret) = VisibleList(compareAll(functions, options))

\* C2: a pair whose unconstrained score reaches minSimilarity is rejected
\* by none of the three pruning filters, in compareAll and in the worker.
C2_PruningSound ==
    (call.fn = "pruningFilters"
     /\ calculateSimilarity(str1, str2) >= call.minSimilarity)
        => (call.value = "pass" /\ call.inWorker = "pass")

\* C3: with ceiling c the thresholded distance is the true distance when
\* that is at most c, and exactly c + 1 otherwise.
C3_TrueDistanceOrCeilingPlusOne ==
    (call.fn = "levenshteinDistanceWithThreshold" /\ IsDefined(call.maxDistance))
        => call.value =
              IF EditDistance(str1, str2) <= ValueOf(call.maxDistance)
              THEN EditDistance(str1, str2)
              ELSE ValueOf(call.maxDistance) + 1

\* C4: with excludeSelf = true compareAll returns no result whose two
\* fragments have the same filePath and the same startLine.
C4_CompareAllExcludesSelf ==
    (pc = "returned"
     /\ \/ (op.name = "compareAll" /\ options.excludeSelf)
        \/ op.name = "findDuplicates")
        => \A k \in 1..Len(ret) : ~SameIdentity(ret[k])

\* the array holds two fragments of one identity, the self test skipped
\* them, and other pairs were returned
C4_Witness ==
    /\ pc = "returned"
    /\ op.name = "compareAll"
    /\ options.excludeSelf
    /\ HasSelfPair(FilterByMinLines(functions, options.minLines))
    /\ Len(ret) >= 2

\* C5: with excludeSelf = true the worker path of compareAllParallel
\* returns no result whose two fragments have the same filePath and the
\* same startLine.
C5_WorkersExcludeSelf ==
    (ViaWorkers /\ options.excludeSelf)
        => \A k \in 1..Len(ret) : ~SameIdentity(ret[k])

LexLess(p, q) == p[1] < q[1] \/ (p[1] = q[1] /\ p[2] < q[2])

\* C6: the list compareAll returns, and the list compareAllParallel
\* returns, is in non-increasing normalizedScore order, and results of
\* equal normalizedScore are in ascending (i, j) order.
C6_SortedWithStableTies ==
    (Returned /\ op.name \in {"compareAll", "findDuplicates", "compareAllParallel"})
        => \A k, l \in 1..Len(ret) :
              k < l =>
                 /\ ret[k].normalizedScore >= ret[l].normalizedScore
                 /\ ret[k].normalizedScore = ret[l].normalizedScore
                       => LexLess(ret[k].pair, ret[l].pair)

\* three workers returned a list that holds a tie between results of two
\* different rows and a result of another score that was pushed first
C6_Witness ==
    /\ ViaWorkers
    /\ Len(par.workers) = 3
    /\ \E k, l \in 1..Len(ret) :
          /\ k < l
          /\ ret[k].normalizedScore = ret[l].normalizedScore
          /\ ret[k].pair[1] # ret[l].pair[1]
    /\ \E k, l \in 1..Len(ret) :
          /\ k < l
          /\ ret[k].normalizedScore > ret[l].normalizedScore
          /\ LexLess(ret[l].pair, ret[k].pair)

\* C7: whatever the order in which the workers post their messages, the
\* list compareAllParallel returns is the merge of the workers' results in
\* worker-index order, sorted.
C7_IndependentOfArrivalOrder ==
    ViaWorkers
        => ret = MergeAndSort(
                     [w \in 1..Len(par.workerData) |-> WorkerMain(par.workerData[w])],
                     par.filteredFunctions)

\* a later worker's message arrived before an earlier worker's, and the
\* two hold results of equal score
C7_Witness ==
    /\ ViaWorkers
    /\ \E m, n \in 1..Len(par.arrival) :
          /\ m < n
          /\ par.arrival[m] > par.arrival[n]
          /\ \E x \in 1..Len(WorkerMain(par.workerData[par.arrival[m]])) :
             \E y \in 1..Len(WorkerMain(par.workerData[par.arrival[n]])) :
                WorkerMain(par.workerData[par.arrival[m]])[x].normalizedScore
                    = WorkerMain(par.workerData[par.arrival[n]])[y].normalizedScore

\* the threshold the finished call was configured with
ConfiguredThreshold ==
    IF op.name = "findDuplicates" THEN op.threshold ELSE options.minSimilarity

\* C8: every result compareAll, compareAllParallel, compareOne and
\* findDuplicates return has normalizedScore >= the configured minSimilarity.
C8_ResultsMeetThreshold ==
    Returned
        => \A k \in 1..Len(ret) : ret[k].normalizedScore >= ConfiguredThreshold

\* compareAll kept a result and dropped a pair that passed the filters and
\* scored below a positive threshold
C8_Witness ==
    /\ pc = "returned"
    /\ op.name = "compareAll"
    /\ options.minSimilarity > 0
    /\ Len(ret) >= 1
    /\ LET fs == FilterByMinLines(functions, options.minLines)
       IN  \E i, j \in 1..Len(fs) :
              /\ i < j
              /\ ~IsSelfPair(options.excludeSelf, fs[i], fs[j])
              /\ LET norm1 == IF options.normalize THEN fs[i].normalizedCode
                              ELSE fs[i].code
                     norm2 == IF options.normalize THEN fs[j].normalizedCode
                              ELSE fs[j].code
                 IN  /\ PruneCompareAll(norm1, norm2, options.minSimilarity) = "pass"
                     /\ calculateSimilarity(norm1, norm2) < options.minSimilarity

\* C9: calculateSimilarity and calculateSimilarityWithThreshold return a
\* value in [0, 100], and so every normalizedScore and raw score of a
\* result is in [0, 100].
C9_ScoresInRange ==
    /\ call.fn \in {"calculateSimilarity", "calculateSimilarityWithThreshold"}
          => call.value \in 0..10000
    /\ Returned
          => \A k \in 1..Len(ret) :
                /\ ret[k].normalizedScore \in 0..10000
                /\ ret[k].similarityScore \in 0..10000

\* the thresholded scorer gave a score strictly between 0 and 100 for a
\* threshold strictly between 0 and 100
C9_Witness ==
    /\ call.fn = "calculateSimilarityWithThreshold"
    /\ IsDefined(call.minSimilarity)
    /\ ValueOf(call.minSimilarity) \in 1..9999
    /\ call.value \in 1..9999

\* the fragments of fs with at least minLines lines, in the order of fs
RECURSIVE KeepInOrder(_, _)
KeepInOrder(fs, minLines) ==
    IF fs = << >> THEN << >>
    ELSE IF LineCount(Head(fs)) >= minLines
    THEN <<Head(fs)>> \o KeepInOrder(Tail(fs), minLines)
    ELSE KeepInOrder(Tail(fs), minLines)

\* C10: when minLines > 0 no fragment with fewer than minLines lines is
\* function1 or function2 of a result of compareAll, compareAllParallel or
\* compareOne, and the fragments that survive the filter keep their
\* relative order: position i of the filtered array is the i-th survivor.
C10_MinLinesFilter ==
    (Returned /\ options.minLines > 0
     /\ op.name \in {"compareAll", "compareAllParallel", "compareOne"})
        => /\ \A k \in 1..Len(ret) :
                 /\ RefLineCount(ret[k].function1) >= options.minLines
                 /\ RefLineCount(ret[k].function2) >= options.minLines
           /\ op.name \in {"compareAll", "compareAllParallel"}
                 => LET kept == KeepInOrder(functions, options.minLines)
                    IN  \A k \in 1..Len(ret) :
                           /\ ret[k].pair[2] < Len(kept)
                           /\ ret[k].function1
                                 = FunctionReference(kept[ret[k].pair[1] + 1])
                           /\ ret[k].function2
                                 = FunctionReference(kept[ret[k].pair[2] + 1])
           /\ ViaWorkers
                 => par.filteredFunctions
                       = KeepInOrder(functions, options.minLines)

\* the filter dropped a fragment that stood between two survivors, and a
\* result pairs the survivors
C10_Witness ==
    /\ pc = "returned"
    /\ op.name = "compareAll"
    /\ options.minLines > 0
    /\ Len(functions) = 3
    /\ LineCount(functions[2]) < options.minLines
    /\ Len(ret) = 1

\* C11: once any worker has raised an error, compareAllParallel has failed:
\* its promise is rejected and no result list has been returned, whatever
\* the other workers posted and in whatever order.
AnyWorkerFailed ==
    /\ par.path = "workers"
    /\ \E w \in 1..Len(par.workers) : par.workers[w] = "failed"

C11_WorkerErrorRejects ==
    AnyWorkerFailed => pc = "rejected" /\ ret = << >>

\* a failed run in which another worker had already posted its message,
\* and one more posted after the failure
C11_Witness ==
    /\ AnyWorkerFailed
    /\ pc = "rejected"
    /\ Len(par.arrival) >= 2
    /\ \E w \in 1..Len(par.workers) : par.workers[w] = "exited"

\* the pairs a worker evaluates: rows startIdx..endIdx-1, each against every
\* later position of the array
PairsOf(workerData) ==
    {<<i, j>> : i \in workerData.startIdx..(workerData.endIdx - 1),
               j \in 0..(Len(workerData.functions) - 1)} \cap
    {p \in (0..MaxSpawnFrags) \X (0..MaxSpawnFrags) : p[1] < p[2]}

\* C12: for every filtered fragment count N >= 1 and every worker count, the
\* row ranges [startIdx, endIdx) handed to the spawned workers are non-empty,
\* contiguous, pairwise disjoint and cover [0, N), so every pair (i, j) with
\* i < j < N is evaluated by exactly one worker.
C12_RowRangesPartition ==
    par.path = "spawned" =>
        LET workerData == par.workerData
            n == Len(functions)
        IN  /\ Len(workerData) >= 1
            /\ workerData[1].startIdx = 0
            /\ workerData[Len(workerData)].endIdx = n
            /\ \A w \in 1..Len(workerData) :
                   workerData[w].startIdx < workerData[w].endIdx
            /\ \A w \in 1..(Len(workerData) - 1) :
                   workerData[w].endIdx = workerData[w + 1].startIdx
            /\ \A i \in 0..(n - 1) :
                   Cardinality({w \in 1..Len(workerData) :
                                  /\ workerData[w].startIdx <= i
                                  /\ i < workerData[w].endIdx}) = 1
            /\ \A i \in 0..(n - 1) : \A j \in (i + 1)..(n - 1) :
                   Cardinality({w \in 1..Len(workerData) :
                                  <<i, j>> \in PairsOf(workerData[w])}) = 1

\* fewer workers spawned than the worker count (the loop left early), at
\* least three of them, and a last range shorter than the first
C12_Witness ==
    /\ par.path = "spawned"
    /\ Len(par.workerData) >= 3
    /\ Len(par.workerData) < par.numWorkers
    /\ LET first == par.workerData[1]
           last == par.workerData[Len(par.workerData)]
       IN  last.endIdx - last.startIdx < first.endIdx - first.startIdx

\* C13: symmetry: for all strings a, b, levenshteinDistance(a, b) equals
\* levenshteinDistance(b, a), and for every ceiling c,
\* levenshteinDistanceWithThreshold(a, b, c) equals
\* levenshteinDistanceWithThreshold(b, a, c).
C13_Symmetric ==
    /\ call.fn = "levenshteinDistance" =>
           call.value = levenshteinDistance(str2, str1)
    /\ call.fn = "levenshteinDistanceWithThreshold" =>
           call.value =
               levenshteinDistanceWithThreshold(str2, str1, call.maxDistance)

DistanceCall ==
    call.fn \in {"levenshteinDistance", "levenshteinDistanceWithThreshold"}

ScorerCall ==
    call.fn \in {"calculateSimilarity", "calculateSimilarityWithThreshold"}

\* C15: for both scorers, and for calculateSimilarityWithThreshold under any
\* minSimilarity in [0,100] or none: score(a, a) is 100 for every a, two
\* empty texts score 100, and a pair with exactly one empty text scores 0.
C15_ScorerEdgeCases ==
    ScorerCall =>
        /\ str1 = str2 => call.value = 10000
        /\ Len(str1) = 0 /\ Len(str2) = 0 => call.value = 10000
        /\ (Len(str1) = 0) # (Len(str2) = 0) => call.value = 0

\* two empty texts scored under a threshold of 100
C15_Witness ==
    /\ call.fn = "calculateSimilarityWithThreshold"
    /\ call.minSimilarity = Some(10000)
    /\ str1 = << >>
    /\ str2 = << >>
    /\ call.value = 10000

\* the options compareAll runs under: the caller's, or findDuplicates' own
EffectiveOptions ==
    IF op.name = "findDuplicates"
    THEN [minSimilarity |-> op.threshold, minLines |-> 0,
          normalize |-> TRUE, excludeSelf |-> TRUE]
    ELSE options

ComparedText(f, opts) == IF opts.normalize THEN f.normalizedCode ELSE f.code

DifferentIdentity(func1, func2) ==
    func1.filePath # func2.filePath \/ func1.startLine # func2.startLine

\* C16: under every threshold in [0,100], two fragments that pass the
\* minLines filter, have different identities and have equal compared text
\* produce a result of compareAll and of findDuplicates, whose
\* normalizedScore is exactly 100; no pruning filter rejects a pair of
\* equal texts, two empty texts included.
C16_EqualTextsScore100 ==
    /\ pc = "returned" /\ op.name \in {"compareAll", "findDuplicates"} =>
           LET opts == EffectiveOptions
               fs == FilterByMinLines(functions, opts.minLines)
           IN  \A i, j \in 1..Len(fs) :
                  /\ i < j
                  /\ DifferentIdentity(fs[i], fs[j])
                  /\ ComparedText(fs[i], opts) = ComparedText(fs[j], opts)
                  => \E k \in 1..Len(ret) :
                        /\ ret[k].pair = <<i - 1, j - 1>>
                        /\ ret[k].normalizedScore = 10000
    /\ call.fn = "pruningFilters" /\ str1 = str2 =>
           call.value = "pass"

\* findDuplicates under a threshold of 100 returned a result for two
\* fragments of different files with equal normalized text
C16_Witness ==
    /\ pc = "returned"
    /\ op.name = "findDuplicates"
    /\ op.threshold = 10000
    /\ \E k \in 1..Len(ret) :
          /\ ret[k].function1.filePath # ret[k].function2.filePath
          /\ ret[k].normalizedScore = 10000

\* the pairs of positions i < j of fs that self-exclusion does not skip
PairsNotSkipped(fs, excludeSelf) ==
    {<<i - 1, j - 1>> : i \in 1..Len(fs), j \in 1..Len(fs)} \cap
    {p \in (0..MaxFrags) \X (0..MaxFrags) :
        /\ p[1] < p[2]
        /\ p[2] < Len(fs)
        /\ ~excludeSelf \/ DifferentIdentity(fs[p[1] + 1], fs[p[2] + 1])}

\* C17: with minSimilarity = 0 compareAll returns exactly one result for
\* every pair i < j of the minLines-filtered sequence that self-exclusion
\* does not skip, whatever the two texts are: no pruning filter and no
\* thresholded score drops a pair.
C17_NoFilteringAtZero ==
    pc = "returned" /\ op.name = "compareAll" /\ options.minSimilarity = 0 =>
        LET fs == FilterByMinLines(functions, options.minLines)
        IN  /\ {ret[k].pair : k \in 1..Len(ret)}
                   = PairsNotSkipped(fs, options.excludeSelf)
            /\ Len(ret) = Cardinality(PairsNotSkipped(fs, options.excludeSelf))

\* three results under threshold 0, one of them for an empty text against
\* a non-empty one (score 0)
C17_Witness ==
    /\ pc = "returned"
    /\ op.name = "compareAll"
    /\ options.minSimilarity = 0
    /\ Len(ret) = 3
    /\ \E k \in 1..Len(ret) :
          /\ ret[k].normalizedScore = 0
          /\ ret[k].function1.filePath # ret[k].function2.filePath

\* C18: in every result of compareAll and compareAllParallel, function1 is
\* the fragment at a strictly lower position of the filtered sequence than
\* function2, and no pair of positions appears in more than one result of
\* the same call.
C18_LowerPositionFirst ==
    Returned /\ op.name \in {"compareAll", "compareAllParallel"} =>
        LET fs == FilterByMinLines(functions, options.minLines)
        IN  /\ \A k \in 1..Len(ret) :
                   /\ 0 <= ret[k].pair[1]
                   /\ ret[k].pair[1] < ret[k].pair[2]
                   /\ ret[k].pair[2] < Len(fs)
                   /\ ret[k].function1 = FunctionReference(fs[ret[k].pair[1] + 1])
                   /\ ret[k].function2 = FunctionReference(fs[ret[k].pair[2] + 1])
            /\ \A k, l \in 1..Len(ret) : k # l => ret[k].pair # ret[l].pair

\* a list merged from the messages of two workers or more, with results
\* of different rows, one of them not of the first worker
C18_Witness ==
    /\ ViaWorkers
    /\ Len(par.workerData) >= 2
    /\ \E k, l \in 1..Len(ret) :
          /\ ret[k].pair[1] # ret[l].pair[1]
          /\ ret[k].pair[1] >= par.workerData[2].startIdx

\* C19: levenshteinDistance and levenshteinDistanceWithThreshold use
\* O(min(len1, len2)) working memory: the two rolling rows they allocate
\* each have length min(len1, len2) + 1, sized by the shorter operand and
\* never by the longer one.
C19_RowsSizedByShorter ==
    DistanceCall /\ call.rowLength > 0 =>
        call.rowLength = Min2(Len(str1), Len(str2)) + 1

\* C20: compareOne(target, fragments, options) returns a result for the
\* fragment at a position of the list if and only if that fragment does not
\* share identity with target, target and fragment both have at least
\* minLines lines when minLines > 0, and the exact, unthresholded score of
\* the selected texts is at least minSimilarity; a target below minLines
\* gives the empty list; target is function1 of every result.
C20_CompareOneResults ==
    pc = "returned" /\ op.name = "compareOne" =>
        LET target == op.targetFunction
            Qualifies(func) ==
                /\ DifferentIdentity(target, func)
                /\ options.minLines > 0 =>
                       /\ LineCount(target) >= options.minLines
                       /\ LineCount(func) >= options.minLines
                /\ calculateSimilarity(ComparedText(target, options),
                                       ComparedText(func, options))
                       >= options.minSimilarity
        IN  /\ \A k \in 1..Len(functions) :
                   Cardinality({r \in 1..Len(ret) : ret[r].pair = <<k - 1, k - 1>>})
                       = IF Qualifies(functions[k]) THEN 1 ELSE 0
            /\ \A r \in 1..Len(ret) :
                   /\ ret[r].pair[1] \in 0..(Len(functions) - 1)
                   /\ ret[r].function1 = FunctionReference(target)
                   /\ ret[r].function2
                          = FunctionReference(functions[ret[r].pair[1] + 1])
            /\ options.minLines > 0 /\ LineCount(target) < options.minLines
                   => ret = << >>

\* excludeSelf is false and the list holds a fragment of target's identity,
\* which has no result; another fragment has one at exactly the threshold
C20_Witness ==
    /\ pc = "returned"
    /\ op.name = "compareOne"
    /\ ~options.excludeSelf
    /\ \E k \in 1..Len(functions) :
          ~DifferentIdentity(op.targetFunction, functions[k])
    /\ \E r \in 1..Len(ret) :
          /\ ret[r].normalizedScore = options.minSimilarity
          /\ options.minSimilarity > 0

\* C21: when fewer fragments than the parallel threshold survive the
\* minLines filter, compareAllParallel spawns no worker and returns exactly
\* what compareAll returns for the original sequence and the same options:
\* compareAll filtering the already filtered sequence again changes nothing.
C21_FallbackEqualsCompareAll ==
    /\ op.name = "compareAllParallel"
    /\ Len(FilterByMinLines(functions, options.minLines)) < ParallelThreshold
    => /\ par.path = "fallback"
       /\ pc = "resolved"
       /\ ret = compareAll(functions, options)

\* a fallback in which the filter dropped a fragment and the list returned
\* is not empty, under a positive threshold
C21_Witness ==
    /\ op.name = "compareAllParallel"
    /\ par.path = "fallback"
    /\ options.minSimilarity > 0
    /\ Len(FilterByMinLines(functions, options.minLines)) < Len(functions)
    /\ Len(ret) >= 1

\* C22: compareAll, compareAllParallel, compareOne and findDuplicates leave
\* their inputs unchanged: no step of any of them changes the caller's
\* fragment array (its length, its order, any field of any fragment) or
\* the caller's options.
C22_InputsUnchanged ==
    [][functions' = functions /\ options' = options]_vars

\* compareAll has returned a list after its filter dropped a fragment of
\* the caller's array
C22_Witness ==
    /\ pc = "returned"
    /\ op.name = "compareAll"
    /\ Len(FilterByMinLines(functions, options.minLines)) < Len(functions)
    /\ Len(ret) >= 1

\* C23: during compareAll with a progress sink over N filtered fragments,
\* every pair i < j is counted exactly once whichever branch handles it,
\* every sink call passes total = N(N-1)/2 and a completed count that is at
\* most total and not smaller than in the call before, and the last call
\* is (total, total).
C23_ProgressReports ==
    pc = "returned" /\ op.name = "compareAll" /\ op.onProgress =>
        LET n == Len(FilterByMinLines(functions, options.minLines))
            total == (n * (n - 1)) \div 2
            calls == op.progress.calls
        IN  /\ op.progress.completedComparisons = total
            /\ Len(calls) >= 1
            /\ calls[Len(calls)] = <<total, total>>
            /\ \A k \in 1..Len(calls) :
                   calls[k][2] = total /\ calls[k][1] <= total
            /\ \A k \in 1..(Len(calls) - 1) : calls[k][1] <= calls[k + 1][1]

\* three pairs, one of them skipped as a self pair (no report for it), and
\* one result only: the third pair was pruned or scored below the threshold
C23_Witness ==
    /\ pc = "returned"
    /\ op.name = "compareAll"
    /\ op.onProgress
    /\ op.progress.completedComparisons = 3
    /\ Len(op.progress.calls) = 3
    /\ Len(ret) = 1

\* floor(maxLen * (1 - m/100)) over the rationals
ExactCeiling(maxLen, m) == (maxLen * (10000 - m)) \div 10000

\* C24: for non-empty, unequal texts a, b and every minSimilarity m in
\* [0,100], calculateSimilarityWithThreshold(a, b, m) is 0 when the edit
\* distance exceeds floor(maxLen * (1 - m/100)), and otherwise is exactly
\* calculateSimilarity(a, b), the rounded ((maxLen - distance) / maxLen);
\* called without a threshold it always equals calculateSimilarity(a, b).
C24_ThresholdedScorerZeroOrExact ==
    /\ call.fn = "calculateSimilarityWithThreshold"
    /\ Len(str1) > 0
    /\ Len(str2) > 0
    /\ str1 # str2
    => LET maxLen == Max2(Len(str1), Len(str2))
           distance == EditDistance(str1, str2)
       IN  IF /\ IsDefined(call.minSimilarity)
              /\ distance > ExactCeiling(maxLen, ValueOf(call.minSimilarity))
           THEN call.value = 0
           ELSE /\ call.value = calculateSimilarity(str1, str2)
                /\ call.value = RoundedScore(maxLen, distance)

\* C25: early-abort soundness: for all strings a, b and every ceiling
\* c >= 0, levenshteinDistanceWithThreshold(a, b, c) returns a value <= c
\* if and only if the true edit distance is <= c, and a returned value <= c
\* is the true distance; neither abort fires for a pair whose true distance
\* is <= c.
C25_EarlyAbortSound ==
    call.fn = "levenshteinDistanceWithThreshold" /\ IsDefined(call.maxDistance) =>
        LET c == ValueOf(call.maxDistance)
            distance == EditDistance(str1, str2)
        IN  /\ call.value <= c <=> distance <= c
            /\ call.value <= c => call.value = distance
            /\ distance <= c => call.value = distance

\* two different texts of equal length whose true distance is exactly the
\* ceiling: every row is filled and no abort fires
C25_Witness ==
    /\ call.fn = "levenshteinDistanceWithThreshold"
    /\ IsDefined(call.maxDistance)
    /\ Len(str1) = Len(str2)
    /\ Len(str1) >= 3
    /\ ValueOf(call.maxDistance) >= 2
    /\ EditDistance(str1, str2) = ValueOf(call.maxDistance)
    /\ call.value = ValueOf(call.maxDistance)

\* C26: for all strings a, b, half the sum over all characters of
\* |freq_a(ch) - freq_b(ch)| is at most levenshteinDistance(a, b); hence
\* whenever failsFrequencyCheck(a, b, k) returns true, the true edit
\* distance of a and b is greater than k.
C26_FrequencyLowerBound ==
    call.fn = "failsFrequencyCheck" =>
        /\ SumAbsDiff(CharsOf(str1) \cup CharsOf(str2), str1, str2)
               <= 2 * levenshteinDistance(str1, str2)
        /\ call.value => EditDistance(str1, str2) > call.maxDistance

\* the check fails two texts of equal length whose distance is just above
\* the ceiling
C26_Witness ==
    /\ call.fn = "failsFrequencyCheck"
    /\ call.value
    /\ Len(str1) = Len(str2)
    /\ call.maxDistance >= 1
    /\ EditDistance(str1, str2) = call.maxDistance + 1

\* C27: for all strings a, b, the rolling-row levenshteinDistance (with its
\* early exits and operand swap), levenshteinDistanceWithThreshold called
\* without a ceiling, and the full-matrix levenshteinDistance of the
\* earlier implementation return the same value, the minimum number of
\* single-character insertions, deletions and substitutions.
C27_ThreeDistancesAgree ==
    /\ call.fn = "levenshteinDistanceFullMatrix" =>
           /\ call.value = EditDistance(str1, str2)
           /\ call.value = levenshteinDistance(str1, str2)
           /\ call.value = levenshteinDistanceWithThreshold(str1, str2, Undefined)
    /\ call.fn = "levenshteinDistance" =>
           call.value = EditDistance(str1, str2)
    /\ call.fn = "levenshteinDistanceWithThreshold"
          /\ call.maxDistance = Undefined =>
           call.value = EditDistance(str1, str2)

\* the full matrix filled for a longer first operand (the rolling rows
\* swap the operands), the texts sharing characters but differing in two
\* places or more
C27_Witness ==
    /\ call.fn = "levenshteinDistanceFullMatrix"
    /\ Len(str1) > Len(str2)
    /\ Len(str2) >= 2
    /\ call.value >= 2
    /\ call.value < Len(str1)

\* the pairs of a result list with their normalizedScore, in list order
PairsAndScores(rs) ==
    [k \in 1..Len(rs) |->
        [function1 |-> rs[k].function1, function2 |-> rs[k].function2,
         pair |-> rs[k].pair, normalizedScore |-> rs[k].normalizedScore]]

\* C28: for every fragment sequence in which each normalizedCode equals
\* normalizeCode(code), and every minSimilarity in [0,100], the optimized
\* compareAll returns the same pairs with the same normalizedScore, in the
\* same order, as the earlier unoptimized compareAll: the optimizations
\* neither drop nor add a qualifying pair.
C28_OptimizedEqualsUnoptimized ==
    /\ pc = "returned"
    /\ op.name = "compareAllUnoptimized"
    /\ \A k \in 1..Len(functions) :
          functions[k].normalizedCode = normalizeCode(functions[k].code)
    => PairsAndScores(compareAll(functions, options)) = PairsAndScores(ret)

\* C29: whenever compareAllParallel, having spawned workers, settles (its
\* promise resolves or rejects), terminate() has been called on every
\* spawned worker; in particular no worker is left running after another
\* worker failed.
C29_WorkersTerminatedOnSettle ==
    (par.path = "workers" /\ pc \in {"resolved", "rejected"}) =>
        \A w \in 1..Len(par.workers) : par.workers[w] = "terminated"

\* C30: when two extractFromDirectory calls on one FunctionExtractor
\* interleave, each returns exactly the functions under its own path (none
\* of the other call's, none of its own lost), and an array a call has
\* returned is not changed afterwards by the other call.
C30_InterleavedCallsIndependent ==
    extractor.state = "on" =>
        \A c \in ExtractCalls :
            extractor.calls[c].pc = "returned" =>
                /\ extractor.calls[c].result
                       = FunctionsUnder(c, extractor.dirs[c], 1)
                /\ extractor.arrays[extractor.calls[c].returned]
                       = extractor.calls[c].result

====
